---- MODULE Spec2Model ----
(***************************************************************************)
(* The segmented log store of recallvault (src/src/logger.py): LogEntry,   *)
(* the text format of a segment file, the line scanner of                  *)
(* LogReader.read_logs, the file naming of LogSegmentation and the         *)
(* capacity-aware append of LogReader.write_logs.                          *)
(*                                                                         *)
(* Text is a sequence of units.  A unit is one character ("a", "[", " ",   *)
(* the newline) or one of three multi-character pieces that the code       *)
(* treats as a whole: the delimiter " - ", the line of twenty dashes and a *)
(* formatted timestamp.  No two adjacent units of the alphabet form one of *)
(* those pieces by accident, so str.split, str.strip and str.startswith    *)
(* act on units as they act on the characters.                             *)
(***************************************************************************)
EXTENDS Integers, Sequences, FiniteSets, TLC

VARIABLES
    dir,                \* the project directory: file name -> text of the file
    current_log_file,   \* per store: LogSegmentation.current_log_file
    log_limit,          \* the capacity the stores are constructed with
    last,               \* the last call: its arguments, the state before, its outcome
    hist,               \* what has been appended so far, and by whom
    batch,              \* codec: the LogVector given to the writer
    text,               \* codec: the text of the segment file
    prev,               \* codec: the text before the last edit made by hand
    edit,               \* codec: the edit made by hand, if any
    out,                \* codec: what read_logs returned for text
    db,                 \* the database logs.db: the tables projects, logs and todos
    templates,          \* the template directory: file name -> text of the file
    cmd                 \* the last call on the database or command of cli.py

vars == <<dir, current_log_file, log_limit, last, hist, batch, text, prev, edit, out,
          db, templates, cmd>>
storeVars == <<dir, current_log_file, log_limit, last, hist>>
codecVars == <<batch, text, prev, edit, out>>
dbVars == <<db, templates, cmd>>

---------------------------------------------------------------------------
\* Bounds of the model.

MaxLimit == 2       \* log_limit ranges over 1..MaxLimit
MaxEntries == 3     \* entries appended in one behaviour of the store
MaxBatch == 2       \* entries in one LogVector given to write_logs
MaxCodecBatch == 2  \* entries in one LogVector given to the codec

---------------------------------------------------------------------------
\* Characters and text.

NL == "\n"
SP == " "
DELIM == " - "
SEPARATOR == "--------------------"
None == <<>>        \* Python's None and "" alike: both are false in a condition

Min(S) == CHOOSE m \in S : \A k \in S : m <= k
Max(S) == CHOOSE m \in S : \A k \in S : m >= k
Last(s) == s[Len(s)]
Most(s) == SubSeq(s, 1, Len(s) - 1)
IsPrefix(s, t) == Len(s) <= Len(t) /\ SubSeq(t, 1, Len(s)) = s

\* datetime values have second precision; a date is the second within one minute.
Dates == 0..59

\* str(date) of a datetime without microseconds, and strftime('%Y-%m-%d %H:%M:%S').
strftime(d) == "2024-01-15 09:30:" \o (IF d < 10 THEN "0" ELSE "") \o ToString(d)

Timestamps == {strftime(d) : d \in Dates}
OneChar(u) == u \notin Timestamps \cup {DELIM, SEPARATOR}

\* str.split(sep) for a separator that is one unit.
RECURSIVE split(_, _)
split(s, sep) ==
    LET at == {i \in 1..Len(s) : s[i] = sep}
    IN  IF at = {} THEN <<s>>
        ELSE LET k == Min(at)
             IN  <<SubSeq(s, 1, k - 1)>> \o split(SubSeq(s, k + 1, Len(s)), sep)

\* The lines a text file yields when iterated: each keeps its newline.
RECURSIVE lines(_)
lines(t) ==
    LET at == {i \in 1..Len(t) : t[i] = NL}
    IN  IF t = <<>> THEN <<>>
        ELSE IF at = {} THEN <<t>>
        ELSE LET k == Min(at)
             IN  <<SubSeq(t, 1, k)>> \o lines(SubSeq(t, k + 1, Len(t)))

Blank(u) == u \in {SP, NL}

\* str.strip(): whitespace removed at both ends.
strip(s) ==
    LET keep == {i \in 1..Len(s) : ~Blank(s[i])}
    IN  IF keep = {} THEN <<>> ELSE SubSeq(s, Min(keep), Max(keep))

\* str.rstrip(): the trim of trailing whitespace.
rstrip(s) ==
    LET keep == {i \in 1..Len(s) : ~Blank(s[i])}
    IN  IF keep = {} THEN <<>> ELSE SubSeq(s, 1, Max(keep))

---------------------------------------------------------------------------
\* LogEntry.

LogEntry(date, log) == [date |-> date, log |-> log]

\* date[1:-1]: the first and the last character are cut off.  The first unit
\* is "[" (read_logs calls from_string only on such lines).  cut tells that
\* the last unit lost its last character instead of being removed.
slice(s) ==
    LET r == SubSeq(s, 2, Len(s))
    IN  IF r = <<>> THEN [units |-> <<>>, cut |-> FALSE]
        ELSE IF OneChar(Last(r)) THEN [units |-> Most(r), cut |-> FALSE]
        ELSE [units |-> r, cut |-> TRUE]

\* datetime.strptime(x, "%Y-%m-%d %H:%M:%S"): the text must be a timestamp and
\* nothing else.  %S also accepts one digit, so a timestamp that lost its last
\* character parses, to the tens digit of its seconds.
strptime(x) ==
    IF Len(x.units) = 1 /\ x.units[1] \in Timestamps
    THEN LET d == CHOOSE n \in Dates : strftime(n) = x.units[1]
         IN  [raised |-> FALSE, date |-> IF x.cut THEN d \div 10 ELSE d]
    ELSE [raised |-> TRUE, date |-> 0]

\* LogEntry.from_string: ValueError when the line does not split in two at
\* " - " or when the first part is no timestamp in brackets.
from_string(line) ==
    LET parts == split(line, DELIM)
    IN  IF Len(parts) # 2
        THEN [raised |-> TRUE, entry |-> LogEntry(0, <<>>)]
        ELSE LET d == strptime(slice(parts[1]))
             IN  [raised |-> d.raised, entry |-> LogEntry(d.date, parts[2])]

\* LogEntry.to_string.
to_string(e) == <<"[", strftime(e.date), "]", DELIM>> \o e.log

\* LogEntry.append_log.
append_log(e, more) == [e EXCEPT !.log = @ \o more]

---------------------------------------------------------------------------
\* The line scanner of LogReader.read_logs.

\* The scanner before the first line: curr_log = "" and inside_log = False.
\* curr_log is kept as a sequence of no or one entry; the empty sequence is
\* the empty string the code starts with, which is false in "if curr_log".
ScanStart == [raised |-> FALSE, logs |-> <<>>, curr_log |-> <<>>, inside_log |-> FALSE]

\* The body of the loop "for line in file", for one line.
scan_line_header_first(st, line) ==
    IF st.raised THEN st
    ELSE IF strip(line) = <<SEPARATOR>>
    THEN [st EXCEPT !.logs = IF st.curr_log # <<>> THEN Append(@, st.curr_log[1]) ELSE @,
                    !.inside_log = FALSE]
    ELSE IF line[1] = "["
    THEN LET e == from_string(line)
         IN  IF e.raised THEN [st EXCEPT !.raised = TRUE]
             ELSE [st EXCEPT !.curr_log = <<e.entry>>, !.inside_log = TRUE]
    ELSE IF st.inside_log
    THEN [st EXCEPT !.curr_log = <<append_log(@[1], line)>>]
    ELSE st

scan_line(st, line) ==
    IF st.raised THEN st
    ELSE IF strip(line) = <<SEPARATOR>>
    THEN [st EXCEPT !.logs = IF st.curr_log # <<>> THEN Append(@, st.curr_log[1]) ELSE @,
                    !.inside_log = FALSE]
    ELSE IF line[1] = "[" /\ ~st.inside_log
    THEN LET e == from_string(line)
         IN  IF e.raised THEN [st EXCEPT !.raised = TRUE]
             ELSE [st EXCEPT !.curr_log = <<e.entry>>, !.inside_log = TRUE]
    ELSE IF st.inside_log
    THEN [st EXCEPT !.curr_log = <<append_log(@[1], line)>>]
    ELSE st

RECURSIVE scan(_, _)
scan(st, ls) == IF ls = <<>> THEN st ELSE scan(scan_line(st, ls[1]), Tail(ls))

\* What the scanner makes of the text of one file: the LogVector returned,
\* or raised when from_string raised (the exception leaves read_logs).
read_text(t) ==
    LET st == scan(ScanStart, lines(t))
    IN  IF st.raised THEN [raised |-> TRUE, logs |-> <<>>]
        ELSE [raised |-> FALSE, logs |-> st.logs]

\* LogReader.read_logs(path) on directory d.
read_logs_missing_raises(d, path) ==
    IF path = None \/ path \notin DOMAIN d
    THEN [raised |-> TRUE, logs |-> <<>>]
    ELSE read_text(d[path])

read_logs(d, path) ==
    IF path = None \/ path \notin DOMAIN d
    THEN [raised |-> FALSE, logs |-> <<>>]
    ELSE read_text(d[path])

---------------------------------------------------------------------------
\* File names: LogSegmentation.

\* str(number) and int(text) for a decimal numeral, digit by digit.
Digit == <<"0", "1", "2", "3", "4", "5", "6", "7", "8", "9">>

RECURSIVE str(_)
str(n) == IF n < 10 THEN <<Digit[n + 1]>> ELSE Append(str(n \div 10), Digit[(n % 10) + 1])

RECURSIVE int(_)
int(s) ==
    IF s = <<>> THEN 0
    ELSE 10 * int(Most(s)) + (CHOOSE k \in 0..9 : Digit[k + 1] = Last(s))

\* f"log_{number}.txt", as the sequence of its characters.
file_name(number) == <<"l", "o", "g", "_">> \o str(number) \o <<".", "t", "x", "t">>

\* The character codes that order file names in sorted().
ord(c) ==
    CASE c = "." -> 46
      [] c = "_" -> 95
      [] c = "g" -> 103
      [] c = "l" -> 108
      [] c = "o" -> 111
      [] c = "t" -> 116
      [] c = "x" -> 120
      [] OTHER -> 48 + (CHOOSE k \in 0..9 : Digit[k + 1] = c)

\* s < t for Python strings: the first differing character decides, and a
\* proper prefix is smaller.
StrLess(s, t) ==
    LET diff == {i \in 1..Min({Len(s), Len(t)}) : s[i] # t[i]}
    IN  IF diff = {} THEN Len(s) < Len(t)
        ELSE ord(s[Min(diff)]) < ord(t[Min(diff)])

\* LogSegmentation.last_log_file: sorted(log_files)[-1], or None.
last_log_file(d) ==
    IF DOMAIN d = {} THEN None
    ELSE CHOOSE f \in DOMAIN d : \A g \in DOMAIN d : g = f \/ StrLess(g, f)

\* The number in a file name: int(name.split("_")[1].split(".")[0]).
number_of(name) == int(split(split(name, "_")[2], ".")[1])

\* LogSegmentation.generate_file_name, for the cached name cur: the name
\* returned, which the method also stores as current_log_file.
generate_file_name_zero(cur) ==
    LET number == IF cur # None THEN number_of(cur) + 1 ELSE 0
    IN  file_name(number)

generate_file_name(cur) ==
    LET number == IF cur # None THEN number_of(cur) + 1 ELSE 1
    IN  file_name(number)

---------------------------------------------------------------------------
\* Writing: LogReader.write_log and LogReader.write_logs.

\* open(file_path, "a"): the text the file holds, none when it does not exist.
content_truncated(d, f) == <<>>
content(d, f) == IF f \in DOMAIN d THEN d[f] ELSE <<>>

\* What LogReader.write_log writes for one entry: the entry, a newline and
\* the separator line.
entry_text(e) == to_string(e) \o <<NL>> \o <<SEPARATOR, NL>>

\* LogReader.write_log: the text of the entry is appended to the file, which
\* is created when it does not exist.
write_log(d, f, e) ==
    [g \in DOMAIN d \cup {f} |-> IF g = f THEN content(d, f) \o entry_text(e) ELSE d[g]]

\* The text that writing the entries of a LogVector adds to a file.
RECURSIVE serialize(_)
serialize(logs) == IF logs = <<>> THEN <<>> ELSE entry_text(logs[1]) \o serialize(Tail(logs))

\* "for log in logs: self.write_log(path, log)".
write_all_split(d, f, logs) ==
    IF logs = <<>> THEN d
    ELSE IF Len(logs) = 1 THEN write_log(d, f, logs[1])
    ELSE write_log(write_log(d, f, logs[1]), file_name(number_of(f) + 1), logs[2])

RECURSIVE write_all(_, _, _)
write_all(d, f, logs) ==
    IF logs = <<>> THEN d ELSE write_all(write_log(d, f, logs[1]), f, Tail(logs))

\* The capacity check of write_logs: "len(curr_logs) >= self.seg.log_limit".
limit_reached_early(n, limit) == n + 1 >= limit
limit_reached(n, limit) == n >= limit

\* LogReader.write_logs for a store whose cached name is cur: the directory
\* and the cached name after the call, and the file written.  raised: the
\* read of the active segment raised, and nothing was written.
write_logs(d, cur, limit, logs) ==
    LET last_file == IF cur # None THEN cur ELSE last_log_file(d)
        curr_logs == IF last_file # None THEN read_logs(d, last_file)
                     ELSE [raised |-> FALSE, logs |-> <<>>]
    IN  IF curr_logs.raised
        THEN [raised |-> TRUE, dir |-> d, current |-> cur, file |-> None]
        ELSE IF limit_reached(Len(curr_logs.logs), limit)
        THEN LET new_log_file == generate_file_name(cur)
             IN  [raised |-> FALSE, dir |-> write_all(d, new_log_file, logs),
                  current |-> new_log_file, file |-> new_log_file]
        ELSE IF last_file = None
        THEN LET first == generate_file_name(cur)
             IN  [raised |-> FALSE, dir |-> write_all(d, first, logs),
                  current |-> first, file |-> first]
        ELSE [raised |-> FALSE, dir |-> write_all(d, last_file, logs),
              current |-> cur, file |-> last_file]

---------------------------------------------------------------------------
\* The stores and what they are given.

\* Two LogReader objects over the same project directory, used one call at a
\* time (every call is synchronous).
Stores == {"A", "B"}

\* Bodies of the entries appended: one of two lines, and one whose first line
\* holds the delimiter " - ".
Bodies == {<<"a", NL, "b">>, <<"a", DELIM, "b">>}

\* The LogVectors of n entries whose dates are the seconds from, from + 1, ...
\* (an entry is stamped with the time of its creation).
VectorsOf(n, from) ==
    {[i \in 1..n |-> LogEntry(from + i - 1, body[i])] : body \in [1..n -> Bodies]}

Vectors(from, room) ==
    UNION {VectorsOf(n, from) : n \in 1..Min({MaxBatch, room})}

NoCall ==
    [op |-> "none", store |-> "A", logs |-> <<>>, path |-> None, dir |-> <<>>,
     current |-> None, raised |-> FALSE, file |-> None, result |-> <<>>,
     n |-> 0, error |-> "none", input |-> <<>>, echo |-> ""]

\* The database after Base.metadata.create_all on a new file: three empty
\* tables.  clock counts the calls of datetime.now that filled a date.
EmptyDb == [projects |-> <<>>, logs |-> <<>>, todos |-> <<>>, clock |-> 0]

NoCommand ==
    [op |-> "none", name |-> "", id |-> 0, done |-> FALSE, template |-> "",
     buffer |-> <<>>, kept |-> FALSE, typed |-> <<>>, depth |-> 0,
     printed |-> <<>>, echo |-> ""]

\* The database and the templates while the segment files are at work.
DbIdle ==
    /\ db = EmptyDb
    /\ templates = <<>>
    /\ cmd = NoCommand

\* The codec variables while the stores are at work.
CodecIdle ==
    /\ batch = <<>>
    /\ text = <<>>
    /\ prev = <<>>
    /\ edit = [kind |-> "idle", at |-> 0]
    /\ out = [read |-> FALSE, raised |-> FALSE, logs |-> <<>>]

\* Both stores are constructed on the empty project directory.
Init ==
    /\ dir = <<>>
    /\ current_log_file = [s \in Stores |-> last_log_file(<<>>)]
    /\ log_limit \in 1..MaxLimit
    /\ last = NoCall
    /\ hist = [entries |-> <<>>, start |-> 0, writers |-> {}, sizes |-> {},
               restarted |-> FALSE]
    /\ CodecIdle
    /\ DbIdle

\* LogReader.__init__ and LogSegmentation.__init__: a store is constructed
\* over the directory as it is (a restart), and caches the last file name.
Construct(s) ==
    /\ current_log_file' = [current_log_file EXCEPT ![s] = last_log_file(dir)]
    /\ last' = [NoCall EXCEPT !.op = "construct", !.store = s, !.dir = dir,
                              !.current = current_log_file[s]]
    /\ hist' = [hist EXCEPT !.restarted = @ \/ hist.entries # <<>>]
    /\ UNCHANGED <<dir, log_limit>>
    /\ UNCHANGED <<codecVars, dbVars>>

\* LogReader.write_logs(logs) by store s.
WriteLogs(s, logs) ==
    LET w == write_logs(dir, current_log_file[s], log_limit, logs)
    IN  /\ dir' = w.dir
        /\ current_log_file' = [current_log_file EXCEPT ![s] = w.current]
        /\ last' = [NoCall EXCEPT !.op = "append", !.store = s, !.logs = logs,
                                  !.dir = dir, !.current = current_log_file[s],
                                  !.raised = w.raised, !.file = w.file]
        /\ hist' = IF w.raised THEN hist
                   ELSE [hist EXCEPT !.entries = @ \o logs,
                                     !.writers = @ \cup {s},
                                     !.sizes = @ \cup {Len(logs)}]
        /\ UNCHANGED log_limit
        /\ UNCHANGED <<codecVars, dbVars>>

\* LogReader.read_logs(path) by store s.
ReadLogs_sets_current(s, path) ==
    LET r == read_logs(dir, path)
    IN  /\ last' = [NoCall EXCEPT !.op = "read", !.store = s, !.path = path,
                                  !.dir = dir, !.current = current_log_file[s],
                                  !.raised = r.raised, !.result = r.logs]
        /\ current_log_file' = [current_log_file EXCEPT ![s] = path]
        /\ UNCHANGED <<dir, log_limit, hist>>
        /\ UNCHANGED <<codecVars, dbVars>>

ReadLogs(s, path) ==
    LET r == read_logs(dir, path)
    IN  /\ last' = [NoCall EXCEPT !.op = "read", !.store = s, !.path = path,
                                  !.dir = dir, !.current = current_log_file[s],
                                  !.raised = r.raised, !.result = r.logs]
        /\ UNCHANGED <<dir, current_log_file, log_limit, hist>>
        /\ UNCHANGED <<codecVars, dbVars>>

\* The entries appended since the start, and the room left for more.
Appended == Len(hist.entries) - hist.start
Room == MaxEntries - Appended

\* The names a caller may read: no name, an existing file, the next one.
Paths == {None} \cup DOMAIN dir \cup {file_name(Cardinality(DOMAIN dir) + 1)}

Next ==
    \/ \E s \in Stores : Construct(s)
    \/ \E s \in Stores : \E logs \in Vectors(Len(hist.entries), Room) : WriteLogs(s, logs)
    \/ \E s \in Stores : \E path \in Paths : ReadLogs(s, path)

Spec == Init /\ [][Next]_vars

---------------------------------------------------------------------------
\* One store at a time, restarted at will, over a directory that already
\* holds StartSegments full segments.

StartSegments == 10
OneStore == "A"

\* The store after n single-entry appends to an empty directory.
RECURSIVE Filled(_, _)
Filled(n, limit) ==
    IF n = 0 THEN [dir |-> <<>>, current |-> last_log_file(<<>>)]
    ELSE LET p == Filled(n - 1, limit)
         IN  write_logs(p.dir, p.current, limit, <<LogEntry(n - 1, <<"a", NL, "b">>)>>)

InitTen ==
    /\ log_limit \in 1..MaxLimit
    /\ dir = Filled(StartSegments * log_limit, log_limit).dir
    /\ current_log_file = [s \in Stores |-> last_log_file(dir)]
    /\ last = NoCall
    /\ hist = [entries |-> [i \in 1..(StartSegments * log_limit) |->
                                LogEntry(i - 1, <<"a", NL, "b">>)],
               start |-> StartSegments * log_limit,
               writers |-> {}, sizes |-> {}, restarted |-> FALSE]
    /\ CodecIdle
    /\ DbIdle

NextTen ==
    \/ Construct(OneStore)
    \/ \E logs \in Vectors(Len(hist.entries), Room) : WriteLogs(OneStore, logs)
    \/ \E path \in Paths : ReadLogs(OneStore, path)

SpecTen == InitTen /\ [][NextTen]_vars

---------------------------------------------------------------------------
\* Vocabulary of the properties of the store.

\* The active segment of the store that made the last call, at the call: the
\* cached name, or the result of the directory scan when no name is cached.
ActiveBefore == IF last.current # None THEN last.current ELSE last_log_file(last.dir)

\* What the active segment held at the call, as the store counts it.
HeldBefore == read_logs(last.dir, ActiveBefore)

AppendDone == last.op = "append" /\ ~last.raised

\* Entries equal field for field: the date to the second, the body apart
\* from a trim of trailing whitespace.
SameEntry(x, y) == x.date = y.date /\ rstrip(x.log) = rstrip(y.log)
SameLogs(xs, ys) == Len(xs) = Len(ys) /\ \A i \in 1..Len(xs) : SameEntry(xs[i], ys[i])

\* C1: rotation trigger.  When the active segment holds log_limit or more
\* entries, an append writes to a file that did not exist before the call,
\* that file then holds exactly the text of the appended batch, and every
\* file that existed before is unchanged.
C1_RotationTrigger ==
    (/\ last.op = "append"
     /\ ActiveBefore \in DOMAIN last.dir
     /\ ~HeldBefore.raised
     /\ Len(HeldBefore.logs) >= log_limit)
    => /\ ~last.raised
       /\ last.file \notin DOMAIN last.dir
       /\ last.file \in DOMAIN dir
       /\ dir[last.file] = serialize(last.logs)
       /\ \A f \in DOMAIN last.dir : dir[f] = last.dir[f]

Solo ==
    /\ hist.start = 0
    /\ Cardinality(hist.writers) = 1
    /\ hist.sizes = {1}
    /\ ~hist.restarted

Share(i) ==
    SubSeq(hist.entries, (i - 1) * log_limit + 1, Min({i * log_limit, Len(hist.entries)}))

SegmentCount == (Len(hist.entries) + log_limit - 1) \div log_limit

C3_EndToEndPlacement ==
    Solo =>
        /\ DOMAIN dir = {file_name(i) : i \in 1..SegmentCount}
        /\ \A i \in 1..SegmentCount :
              LET r == read_logs(dir, file_name(i))
              IN  ~r.raised /\ SameLogs(r.logs, Share(i))

\* The placement of C3 on the text of the files, which does not depend on
\* reading the entries back.
PlacementOnDisk ==
    Solo =>
        /\ DOMAIN dir = {file_name(i) : i \in 1..SegmentCount}
        /\ \A i \in 1..SegmentCount : dir[file_name(i)] = serialize(Share(i))

\* C4: append-only.  Whatever the last call was, every file that existed
\* before it still exists and its text before the call is a prefix of its
\* text after the call.
C4_AppendOnly ==
    \A f \in DOMAIN last.dir : f \in DOMAIN dir /\ IsPrefix(last.dir[f], dir[f])

C4_Witness ==
    /\ AppendDone
    /\ last.file \in DOMAIN last.dir
    /\ last.dir[last.file] # <<>>
    /\ Len(dir[last.file]) > Len(last.dir[last.file])

\* C5: older segments are immutable.  An append never adds to a segment while
\* a segment with a higher number exists.
C5_OlderSegmentsImmutable ==
    AppendDone => \A f \in DOMAIN last.dir : number_of(f) <= number_of(last.file)

\* C10: the active segment when no name is cached.  When the cached name is
\* unknown and the directory scan finds segment N, an append adds the batch
\* to N when N holds fewer than log_limit entries and writes it to the
\* segment numbered N + 1 otherwise.
C10_ActiveSegmentWhenUnknown ==
    (/\ last.op = "append"
     /\ last.current = None
     /\ last_log_file(last.dir) # None
     /\ ~HeldBefore.raised)
    => LET N == last_log_file(last.dir)
           target == IF Len(HeldBefore.logs) < log_limit THEN N
                     ELSE file_name(number_of(N) + 1)
       IN  /\ ~last.raised
           /\ last.file = target
           /\ dir[target] = content(last.dir, target) \o serialize(last.logs)

\* C11: capacity bound.  With one store at a time, restarted at will, and
\* every append a batch of one entry, no segment holds more than log_limit
\* entries.
C11_CapacityBound ==
    hist.sizes \subseteq {1} =>
        \A f \in DOMAIN dir :
            LET r == read_logs(dir, f)
            IN  ~r.raised => Len(r.logs) <= log_limit

\* C12: a batch is never split.  An append that completes writes the text of
\* the whole batch, in batch order, to the end of one file; it changes no
\* other file and adds no other file, also when the batch is larger than the
\* room left in that file.
C12_BatchNeverSplit ==
    AppendDone =>
        /\ DOMAIN dir = DOMAIN last.dir \cup {last.file}
        /\ dir[last.file] = content(last.dir, last.file) \o serialize(last.logs)
        /\ \A f \in DOMAIN last.dir \ {last.file} : dir[f] = last.dir[f]

C12_Witness ==
    /\ AppendDone
    /\ Len(last.logs) > log_limit
    /\ last.file \in DOMAIN last.dir
    /\ ~read_logs(dir, last.file).raised
    /\ Len(read_logs(dir, last.file).logs) > log_limit

\* C13: empty read.  A read with no name, or with a name for which there is
\* no file, returns an empty LogVector, raises nothing and leaves the
\* directory as it was.
C13_EmptyRead ==
    (last.op = "read" /\ (last.path = None \/ last.path \notin DOMAIN last.dir))
    => /\ ~last.raised
       /\ last.result = <<>>
       /\ dir = last.dir

C13_Witness ==
    /\ last.op = "read"
    /\ last.path # None
    /\ DOMAIN last.dir = {}
    /\ last.result = <<>>

\* C16: lazy creation.  Constructing a store and reading create no file; an
\* append to a directory without a segment creates log_1.txt, which then
\* holds the text of the batch.
C16_LazyCreation ==
    /\ last.op \in {"construct", "read"} => dir = last.dir
    /\ (last.op = "append" /\ DOMAIN last.dir = {})
       => /\ ~last.raised
          /\ DOMAIN dir = {file_name(1)}
          /\ dir[file_name(1)] = serialize(last.logs)

C16_Witness ==
    /\ AppendDone
    /\ DOMAIN last.dir = {}
    /\ last.file = file_name(1)
    /\ file_name(1) \in DOMAIN dir

\* The files of the directory whose number is below n, and the entries read
\* from the files numbered n and up, in increasing numeric order.
Numbers(d) == {number_of(f) : f \in DOMAIN d}

RECURSIVE read_all(_, _)
read_all(d, todo) ==
    IF todo = {} THEN [raised |-> FALSE, logs |-> <<>>]
    ELSE LET n == Min(todo)
             f == CHOOSE g \in DOMAIN d : number_of(g) = n
             r == read_logs(d, f)
             rest == read_all(d, todo \ {n})
         IN  [raised |-> r.raised \/ rest.raised, logs |-> r.logs \o rest.logs]

RECURSIVE text_all(_, _)
text_all(d, todo) ==
    IF todo = {} THEN <<>>
    ELSE LET n == Min(todo)
             f == CHOOSE g \in DOMAIN d : number_of(g) = n
         IN  d[f] \o text_all(d, todo \ {n})

\* One store, never restarted, on a directory that was empty at the start.
OneWriter ==
    /\ hist.start = 0
    /\ Cardinality(hist.writers) <= 1
    /\ ~hist.restarted

\* C18: no loss, no duplication.  For one store on a directory that was empty,
\* the segments read in increasing numeric order return, one after the other,
\* exactly the entries appended, in the order of their appending.
C18_NoLossNoDuplication ==
    OneWriter =>
        LET r == read_all(dir, Numbers(dir))
        IN  ~r.raised /\ SameLogs(r.logs, hist.entries)

\* The statement of C18 on the text of the files, which does not depend on
\* reading the entries back.
NoLossOnDisk ==
    OneWriter => text_all(dir, Numbers(dir)) = serialize(hist.entries)

\* C19: appends cannot wedge the store.  After appends that completed, by one
\* store, the next append completes as well and every segment can be read.
C19_AppendsCannotWedge ==
    (last.op = "append" /\ hist.writers \subseteq {last.store})
    => /\ ~last.raised
       /\ \A f \in DOMAIN dir : ~read_logs(dir, f).raised

\* C21: read has no side effects.  A read leaves every file, the set of
\* files and the cached name of the store as they were, and reading the same
\* name again returns the same LogVector.
C21_ReadNoSideEffects ==
    last.op = "read" =>
        /\ dir = last.dir
        /\ current_log_file[last.store] = last.current
        /\ read_logs(dir, last.path).raised = last.raised
        /\ read_logs(dir, last.path).logs = last.result

C21_Witness ==
    /\ last.op = "read"
    /\ last.path \in DOMAIN dir
    /\ last.result # <<>>
    /\ current_log_file[last.store] # last.path

---------------------------------------------------------------------------
\* The codec on its own: a LogVector is written as text, the text may be
\* edited by hand (segment files are plain text), and read_logs scans it.

CodecDates == {1, 2}

\* Bodies: one line; two lines; a first line holding " - "; a line of twenty
\* dashes inside the body; a second line that begins like a header; a body
\* ending in a blank; a second line that is a header in full.
CodecBodies ==
    {<<"a">>,
     <<"a", NL, "b">>,
     <<"a", DELIM, "b">>,
     <<"a", NL, SEPARATOR, NL, "b">>,
     <<"a", NL, "[", "b">>,
     <<"a", SP>>,
     <<"a", NL, "[", strftime(2), "]", DELIM, "b">>}

CodecEntries == {LogEntry(d, b) : d \in CodecDates, b \in CodecBodies}

\* The entries written after a truncation: later dates, plain bodies.
LaterEntries == {LogEntry(3, <<"c">>), LogEntry(4, <<"c", NL, "d">>)}

CodecVectors == UNION {[1..n -> CodecEntries] : n \in 1..MaxCodecBatch}

InitCodec ==
    /\ dir = <<>>
    /\ current_log_file = [s \in Stores |-> last_log_file(<<>>)]
    /\ log_limit = 1
    /\ last = NoCall
    /\ hist = [entries |-> <<>>, start |-> 0, writers |-> {}, sizes |-> {},
               restarted |-> FALSE]
    /\ batch \in CodecVectors
    /\ text = <<>>
    /\ prev = <<>>
    /\ edit = [kind |-> "input", at |-> 0]
    /\ out = [read |-> FALSE, raised |-> FALSE, logs |-> <<>>]
    /\ DbIdle

RECURSIVE unlines(_)
unlines(ls) == IF ls = <<>> THEN <<>> ELSE ls[1] \o unlines(Tail(ls))

IsSeparatorLine(line) == strip(line) = <<SEPARATOR>>

\* The writer: every entry of the batch through write_log, into a new file.
Serialize ==
    /\ edit.kind = "input"
    /\ text' = serialize(batch)
    /\ edit' = [kind |-> "written", at |-> 0]
    /\ UNCHANGED <<batch, prev, out>>
    /\ UNCHANGED <<storeVars, dbVars>>

\* The file loses its final separator line (a truncated write).
RemoveFinalSeparator ==
    LET ls == lines(text)
    IN  /\ edit.kind = "written"
        /\ ~out.read
        /\ ls # <<>>
        /\ IsSeparatorLine(Last(ls))
        /\ text' = unlines(Most(ls))
        /\ prev' = text
        /\ edit' = [kind |-> "truncated", at |-> Len(ls)]
        /\ UNCHANGED <<batch, out>>
        /\ UNCHANGED <<storeVars, dbVars>>

\* By hand: one more separator line, at the start of the file (i = 0) or
\* directly after the separator line that is line i.
InsertSeparator(i) ==
    LET ls == lines(text)
    IN  /\ edit.kind = "written"
        /\ ~out.read
        /\ i \in 0..Len(ls)
        /\ IF i = 0 THEN TRUE ELSE IsSeparatorLine(ls[i])
        /\ text' = unlines(SubSeq(ls, 1, i)) \o <<SEPARATOR, NL>>
                       \o unlines(SubSeq(ls, i + 1, Len(ls)))
        /\ prev' = text
        /\ edit' = [kind |-> "separator", at |-> i]
        /\ UNCHANGED <<batch, out>>
        /\ UNCHANGED <<storeVars, dbVars>>

\* The header of an entry after an edit by hand that spoils it: letters in
\* the place of the timestamp, or a blank in the place of the " - ".
SpoiltHeader(e, kind) ==
    IF kind = "timestamp" THEN <<"[", "b", "]", DELIM>> \o e.log
    ELSE <<"[", strftime(e.date), "]", SP>> \o e.log

\* By hand: the header line of entry j of the file is spoilt.
SpoilHeader(j, kind) ==
    /\ edit.kind = "written"
    /\ ~out.read
    /\ j \in 1..Len(batch)
    /\ text' = serialize(SubSeq(batch, 1, j - 1))
                   \o SpoiltHeader(batch[j], kind) \o <<NL>> \o <<SEPARATOR, NL>>
                   \o serialize(SubSeq(batch, j + 1, Len(batch)))
    /\ prev' = text
    /\ edit' = [kind |-> kind, at |-> j]
    /\ UNCHANGED <<batch, out>>
    /\ UNCHANGED <<storeVars, dbVars>>

\* LogReader.write_log adds one more entry to the file that lost its final
\* separator line; the entry joins the batch, after the dangling one.
AppendAfterTruncation(e) ==
    /\ edit.kind = "truncated"
    /\ ~out.read
    /\ text' = text \o entry_text(e)
    /\ batch' = Append(batch, e)
    /\ edit' = [kind |-> "appended", at |-> Len(batch)]
    /\ UNCHANGED <<prev, out>>
    /\ UNCHANGED <<storeVars, dbVars>>

\* read_logs scans the file.
Parse ==
    LET r == read_text(text)
    IN  /\ edit.kind # "input"
        /\ ~out.read
        /\ out' = [read |-> TRUE, raised |-> r.raised, logs |-> r.logs]
        /\ UNCHANGED <<batch, text, prev, edit>>
        /\ UNCHANGED <<storeVars, dbVars>>

NextCodec ==
    \/ Serialize
    \/ RemoveFinalSeparator
    \/ \E i \in 0..Len(text) : InsertSeparator(i)
    \/ \E j \in 1..Len(batch) : \E kind \in {"timestamp", "delimiter"} : SpoilHeader(j, kind)
    \/ \E e \in LaterEntries : AppendAfterTruncation(e)
    \/ Parse

SpecCodec == InitCodec /\ [][NextCodec]_vars

\* C6: round trip.  A batch written by the writer and read back, the file
\* untouched in between, is returned with the same length and with entries
\* equal to the originals field for field.
C6_RoundTrip ==
    (out.read /\ edit.kind = "written") => ~out.raised /\ SameLogs(out.logs, batch)

\* C7: truncation safety.  A batch written, the final separator line of the
\* file removed, and the file read: the read does not fail and returns the
\* batch without its last entry.
C7_TruncationSafety ==
    (out.read /\ edit.kind = "truncated") => ~out.raised /\ SameLogs(out.logs, Most(batch))

\* What read_logs returned for the file before the edit by hand.
Before == read_text(prev)

Without(s, j) == SubSeq(s, 1, j - 1) \o SubSeq(s, j + 1, Len(s))

\* C8: malformed content degrades entry by entry.  When the header of one
\* entry of a file that read back well is spoilt, the read does not raise and
\* returns every other entry, in order.
C8_MalformedEntrySkipped ==
    (/\ out.read
     /\ edit.kind \in {"timestamp", "delimiter"}
     /\ ~Before.raised
     /\ SameLogs(Before.logs, batch))
    => ~out.raised /\ SameLogs(out.logs, Without(batch, edit.at))

\* C9: a separator line met outside an entry has no effect.  With one more
\* separator line at the start of the file or directly after a separator
\* line, read_logs returns what it returned without it.
C9_ExtraSeparatorNoEffect ==
    (out.read /\ edit.kind = "separator")
    => out.raised = Before.raised /\ out.logs = Before.logs

\* C20: append after truncation.  When the file ends with a dangling entry
\* and one more entry is written to it, the read returns the new entry as
\* an entry of its own, last, with its own date and body.
C20_AppendAfterTruncation ==
    (out.read /\ edit.kind = "appended")
    => /\ ~out.raised
       /\ out.logs # <<>>
       /\ SameEntry(Last(out.logs), Last(batch))

---------------------------------------------------------------------------
\* LogVector.split on its own.

\* The condition under which split raises SplitError: "len(self.logs) <= n".
too_few_logs_strict(size, n) == size < n
too_few_logs(size, n) == size <= n

\* LogVector.split(n) on a LogVector holding logs.  Past the length check the
\* method evaluates self.logs.items(); self.logs is a list, which has no such
\* attribute, so the call raises AttributeError and returns nothing.
LogVector_split(logs, n) ==
    IF too_few_logs(Len(logs), n)
    THEN [error |-> "SplitError", result |-> <<>>]
    ELSE [error |-> "AttributeError", result |-> <<>>]

SplitSizes == 0..(MaxCodecBatch + 1)

InitVector ==
    /\ dir = <<>>
    /\ current_log_file = [s \in Stores |-> last_log_file(<<>>)]
    /\ log_limit = 1
    /\ last = NoCall
    /\ hist = [entries |-> <<>>, start |-> 0, writers |-> {}, sizes |-> {},
               restarted |-> FALSE]
    /\ batch \in {<<>>} \cup CodecVectors
    /\ text = <<>>
    /\ prev = <<>>
    /\ edit = [kind |-> "vector", at |-> 0]
    /\ out = [read |-> FALSE, raised |-> FALSE, logs |-> <<>>]
    /\ DbIdle

\* A call of split(n) on the LogVector batch; split assigns nothing to
\* self.logs.
Split(n) ==
    LET r == LogVector_split(batch, n)
    IN  /\ edit.kind = "vector"
        /\ last' = [NoCall EXCEPT !.op = "split", !.logs = batch, !.n = n,
                                  !.raised = r.error # "none", !.error = r.error,
                                  !.result = r.result]
        /\ UNCHANGED <<dir, current_log_file, log_limit, hist>>
        /\ UNCHANGED <<codecVars, dbVars>>

\* LogSegmentation.segment_logs(logs) with capacity limit.  At or above the
\* capacity the method evaluates new_logs.split(...) before new_logs is
\* assigned, which raises UnboundLocalError.
segment_logs(logs, limit) ==
    IF Len(logs) >= limit
    THEN [error |-> "UnboundLocalError", result |-> <<>>]
    ELSE [error |-> "none", result |-> <<logs>>]

\* A call of segment_logs on the LogVector batch by a LogSegmentation of
\* capacity limit.
SegmentLogs(limit) ==
    LET r == segment_logs(batch, limit)
    IN  /\ edit.kind = "vector"
        /\ last' = [NoCall EXCEPT !.op = "segment_logs", !.logs = batch, !.n = limit,
                                  !.raised = r.error # "none", !.error = r.error,
                                  !.result = r.result]
        /\ UNCHANGED <<dir, current_log_file, log_limit, hist>>
        /\ UNCHANGED <<codecVars, dbVars>>

NextVector ==
    \/ \E n \in SplitSizes : Split(n)
    \/ \E limit \in 1..(MaxLimit + 1) : SegmentLogs(limit)

SpecVector == InitVector /\ [][NextVector]_vars

\* C14: split success.  split(n) on a LogVector of more than n entries returns
\* the first n entries and the remaining ones, both in the original order.
C14_SplitSuccess ==
    (last.op = "split" /\ Len(last.logs) > last.n)
    => /\ last.error = "none"
       /\ last.result = <<SubSeq(last.logs, 1, last.n),
                          SubSeq(last.logs, last.n + 1, Len(last.logs))>>

\* C15: split precondition.  split(n) on a LogVector of n or fewer entries
\* raises SplitError and leaves the LogVector as it was.
C15_SplitPrecondition ==
    (last.op = "split" /\ Len(last.logs) <= last.n)
    => /\ last.error = "SplitError"
       /\ batch = last.logs

C15_Witness ==
    /\ last.op = "split"
    /\ last.logs # <<>>
    /\ Len(last.logs) = last.n
    /\ last.error = "SplitError"

\* C29: segment_logs.  A LogVector of fewer than log_limit entries is
\* returned as it is; one of log_limit or more entries is returned as the
\* pair of its first log_limit entries and the remaining ones, and nothing
\* is raised.
C29_SegmentLogs ==
    last.op = "segment_logs" =>
        /\ last.error = "none"
        /\ IF Len(last.logs) < last.n
           THEN last.result = <<last.logs>>
           ELSE last.result = <<SubSeq(last.logs, 1, last.n),
                                SubSeq(last.logs, last.n + 1, Len(last.logs))>>

---------------------------------------------------------------------------
\* The scanner of read_logs line by line: out is the state of the loop
\* (logs, curr_log, inside_log, raised) and edit.at the number of lines read.

ScanTexts == {serialize(v) : v \in CodecVectors}

InitScan ==
    /\ dir = <<>>
    /\ current_log_file = [s \in Stores |-> last_log_file(<<>>)]
    /\ log_limit = 1
    /\ last = NoCall
    /\ hist = [entries |-> <<>>, start |-> 0, writers |-> {}, sizes |-> {},
               restarted |-> FALSE]
    /\ batch = <<>>
    /\ text \in ScanTexts
    /\ prev = <<>>
    /\ edit = [kind |-> "scan", at |-> 0]
    /\ out = ScanStart
    /\ DbIdle

\* One turn of "for line in file"; an exception ends the loop.
ScanLine ==
    /\ edit.kind = "scan"
    /\ ~out.raised
    /\ edit.at < Len(lines(text))
    /\ out' = scan_line(out, lines(text)[edit.at + 1])
    /\ edit' = [edit EXCEPT !.at = @ + 1]
    /\ UNCHANGED <<batch, text, prev>>
    /\ UNCHANGED <<storeVars, dbVars>>

NextScan == ScanLine

SpecScan == InitScan /\ [][NextScan]_vars

\* C17: the scanner inside an entry.  A line that is no separator line is
\* added to the body of the current entry as it is, also when it begins like
\* a header; it closes no entry and starts none.  A separator line closes
\* the entry, which is added to the logs once.
C17_ScannerInside ==
    [][(/\ edit.kind = "scan"
        /\ edit'.at = edit.at + 1
        /\ out.inside_log)
       => LET line == lines(text)[edit'.at]
              e == out.curr_log[1]
          IN  /\ ~out'.raised
              /\ IF IsSeparatorLine(line)
                 THEN /\ out'.logs = Append(out.logs, e)
                      /\ ~out'.inside_log
                 ELSE /\ out'.logs = out.logs
                      /\ out'.inside_log
                      /\ out'.curr_log = <<LogEntry(e.date, e.log \o line)>>]_vars

C17_Witness ==
    /\ edit.kind = "scan"
    /\ edit.at >= 2
    /\ out.inside_log
    /\ ~out.raised
    /\ LET line == lines(text)[edit.at]
           body == out.curr_log[1].log
       IN  /\ Len(line) >= 4
           /\ line[1] = "["
           /\ line[2] \in Timestamps
           /\ line[4] = DELIM
           /\ Len(body) > Len(line)
           /\ SubSeq(body, Len(body) - Len(line) + 1, Len(body)) = line

---------------------------------------------------------------------------
\* The commands write and latest of recallvault/main.py.  Every invocation
\* constructs its own LogReader over the project directory.

\* What the user leaves in the editor: nothing, blanks only, one line, two
\* lines, a line holding " - ".
EditorTexts ==
    {<<>>,
     <<SP, NL>>,
     <<"a", NL>>,
     <<"a", NL, "b", NL>>,
     <<"a", DELIM, "b", NL>>}

\* writer(editor): the text of the temporary file, stripped.
writer(typed) == strip(typed)

\* The body of the command write from "log = writer(...)" on, at time now:
\* the directory after the command, and raised when an exception left it.
write_command(d, limit, typed, now) ==
    LET log == writer(typed)
        cur == last_log_file(d)
        prev_logs == read_logs(d, last_log_file(d))
        logs == Append(prev_logs.logs, LogEntry(now, log))
        w == write_logs(d, cur, limit, logs)
    IN  IF log = <<>> THEN [raised |-> FALSE, dir |-> d, logs |-> <<>>]
        ELSE IF prev_logs.raised THEN [raised |-> TRUE, dir |-> d, logs |-> <<>>]
        ELSE [raised |-> w.raised, dir |-> w.dir, logs |-> logs]

\* The body of the command latest from "reader = LogReader(...)" on.  The
\* name given to read_logs is already joined with the project path, and
\* read_logs joins it once more: os.path.join keeps the second path alone
\* when it is absolute and doubles the directory when it is relative.
latest_command(d, absolute) ==
    LET name == last_log_file(d)
        found == absolute /\ name \in DOMAIN d
        logs == IF found THEN read_text(d[name]) ELSE [raised |-> FALSE, logs |-> <<>>]
    IN  IF name = None
        THEN [error |-> "TypeError", printed |-> <<>>, echo |-> ""]
        ELSE IF logs.raised
        THEN [error |-> "ValueError", printed |-> <<>>, echo |-> ""]
        ELSE IF logs.logs # <<>>
        THEN [error |-> "none", printed |-> <<Last(logs.logs)>>, echo |-> ""]
        ELSE [error |-> "none", printed |-> <<>>, echo |-> "No logs found."]

InitCli == Init

\* recallvault write PROJECT, the user leaving typed in the editor.
Write(typed) ==
    LET now == Len(hist.entries)
        c == write_command(dir, log_limit, typed, now)
    IN  /\ writer(typed) # <<>> => Room > 0
        /\ dir' = c.dir
        /\ last' = [NoCall EXCEPT !.op = "write", !.input = typed, !.dir = dir,
                                  !.raised = c.raised, !.logs = c.logs]
        /\ hist' = IF writer(typed) = <<>> THEN hist
                   ELSE [hist EXCEPT !.entries = Append(@, LogEntry(now, writer(typed)))]
        /\ UNCHANGED <<current_log_file, log_limit>>
        /\ UNCHANGED <<codecVars, dbVars>>

\* recallvault latest PROJECT, the configured path absolute or relative.
Latest(absolute) ==
    LET c == latest_command(dir, absolute)
    IN  /\ last' = [NoCall EXCEPT !.op = "latest", !.dir = dir,
                                  !.raised = c.error # "none", !.error = c.error,
                                  !.result = c.printed, !.echo = c.echo]
        /\ UNCHANGED <<dir, current_log_file, log_limit, hist>>
        /\ UNCHANGED <<codecVars, dbVars>>

NextCli ==
    \/ \E typed \in EditorTexts : Write(typed)
    \/ \E absolute \in BOOLEAN : Latest(absolute)

SpecCli == InitCli /\ [][NextCli]_vars

\* The entries stored in the segments of a directory, as read_logs counts them.
Stored(d) == read_all(d, Numbers(d))

\* C22: the write command adds exactly one entry.  An invocation with text
\* in the editor raises the number of entries stored in the segments by one;
\* an invocation with no text leaves the segments as they were.  The count is
\* asked for only where the segments can be read before and after.
C22_WriteAddsOneEntry ==
    last.op = "write" =>
        IF writer(last.input) = <<>> THEN dir = last.dir
        ELSE (~last.raised /\ ~Stored(last.dir).raised /\ ~Stored(dir).raised)
             => Len(Stored(dir).logs) = Len(Stored(last.dir).logs) + 1

\* The segment with the highest number.
MostRecent(d) == CHOOSE f \in DOMAIN d : number_of(f) = Max(Numbers(d))

\* C23: the latest command.  It prints the last entry of the most recent
\* segment when that segment holds an entry, and prints "No logs found."
\* without failing when there is no segment or the segment holds no entry.
C23_LatestCommand ==
    last.op = "latest" =>
        IF DOMAIN last.dir = {}
        THEN last.error = "none" /\ last.echo = "No logs found."
        ELSE LET r == read_logs(last.dir, MostRecent(last.dir))
             IN  ~r.raised =>
                    /\ last.error = "none"
                    /\ IF r.logs = <<>> THEN last.echo = "No logs found."
                       ELSE last.result = <<Last(r.logs)>>

---------------------------------------------------------------------------
\* The database of src/src/log.py: projects, their log entries and todos.

MaxProjectId == 3   \* project ids range over 1..MaxProjectId
MaxLogs == 1        \* log entries added in one behaviour
MaxTodos == 1       \* todos added in one behaviour

\* The id of a new row: the integer primary key of an SQLite table is one
\* more than the largest id in the table, and 1 in an empty table.
next_id(table) == IF DOMAIN table = {} THEN 1 ELSE Max(DOMAIN table) + 1

\* "session.query(Project).filter_by(name=name).first()" finds a row.
name_in_use_never(d, name) == FALSE
name_in_use(d, name) == \E p \in DOMAIN d.projects : d.projects[p].name = name

\* The table with one row more, and with the rows of gone removed.
with_row(table, id, row) == [k \in DOMAIN table \cup {id} |-> IF k = id THEN row ELSE table[k]]
without_rows(table, gone) == [k \in DOMAIN table \ gone |-> table[k]]

\* _create_project: the parent is looked up by id when parent_id is given
\* (None and 0 are not), and the project is inserted with that parent or none.
create_project_row(d, name, parent_id) ==
    LET parent == IF parent_id # 0 /\ parent_id \in DOMAIN d.projects THEN parent_id ELSE 0
        row == [name |-> name, archive |-> FALSE, parent_id |-> parent]
    IN  [d EXCEPT !.projects = with_row(@, next_id(@), row)]

\* create_project.
create_project(d, name, parent_id) ==
    IF name_in_use(d, name) THEN d ELSE create_project_row(d, name, parent_id)

\* get_project_id: the id of the project of that name, or None (0).
get_project_id(d, name) ==
    IF name_in_use(d, name)
    THEN Min({p \in DOMAIN d.projects : d.projects[p].name = name})
    ELSE 0

\* The projects that session.delete(project) deletes: the project and, by the
\* cascade of Project.subprojects, the subprojects of each of them.
RECURSIVE cascade(_, _)
cascade(d, id) ==
    {id} \cup UNION {cascade(d, c) : c \in {k \in DOMAIN d.projects : d.projects[k].parent_id = id}}

\* delete_project, with the cascades of Project.logs and LogEntry.todos.
delete_project_no_cascade(d, id) ==
    IF id \in DOMAIN d.projects
    THEN [d EXCEPT !.projects = without_rows(@, {id})]
    ELSE d

delete_project(d, id) ==
    IF id \in DOMAIN d.projects
    THEN LET projects == cascade(d, id)
             logs == {l \in DOMAIN d.logs : d.logs[l].project_id \in projects}
             todos == {t \in DOMAIN d.todos : d.todos[t].log_id \in logs}
         IN  [d EXCEPT !.projects = without_rows(@, projects),
                       !.logs = without_rows(@, logs),
                       !.todos = without_rows(@, todos)]
    ELSE d

\* archive_project and unarchive_project.
set_archive(d, id, flag) ==
    IF id \in DOMAIN d.projects
    THEN [d EXCEPT !.projects[id].archive = flag]
    ELSE d

\* add_log_to_project: the database after the call and the id returned
\* (None, 0, when there is no such project).
add_log_to_project(d, project_id, log_text) ==
    IF project_id \in DOMAIN d.projects
    THEN LET id == next_id(d.logs)
             row == [date |-> d.clock, log |-> log_text, project_id |-> project_id]
         IN  [db |-> [d EXCEPT !.logs = with_row(@, id, row), !.clock = @ + 1],
              log_id |-> id]
    ELSE [db |-> d, log_id |-> 0]

\* add_todo_to_log.
add_todo_to_log(d, log_id, completed, description) ==
    IF log_id \in DOMAIN d.logs
    THEN LET row == [description |-> description, completed |-> completed, log_id |-> log_id]
         IN  [d EXCEPT !.todos = with_row(@, next_id(@), row)]
    ELSE d

ProjectNames == {"p", "q", "r"}
ProjectIds == 0..(MaxProjectId + 1)
LogTexts == {<<"a">>}

InitDb ==
    /\ dir = <<>>
    /\ current_log_file = [s \in Stores |-> last_log_file(<<>>)]
    /\ log_limit = 1
    /\ last = NoCall
    /\ hist = [entries |-> <<>>, start |-> 0, writers |-> {}, sizes |-> {},
               restarted |-> FALSE]
    /\ CodecIdle
    /\ DbIdle

\* The record of a call: the function, the name or the id it was given where
\* a property speaks of it, and whether it found what it looked for.
Called(op, name, id, done) ==
    [NoCommand EXCEPT !.op = op, !.name = name, !.id = id, !.done = done]

CreateProject(name, parent_id) ==
    /\ ~name_in_use(db, name) => next_id(db.projects) <= MaxProjectId
    /\ db' = create_project(db, name, parent_id)
    /\ cmd' = Called("create_project", name, 0, ~name_in_use(db, name))
    /\ UNCHANGED templates
    /\ UNCHANGED <<storeVars, codecVars>>

DeleteProject(id) ==
    /\ db' = delete_project(db, id)
    /\ cmd' = Called("delete_project", "", id, id \in DOMAIN db.projects)
    /\ UNCHANGED templates
    /\ UNCHANGED <<storeVars, codecVars>>

ArchiveProject(id) ==
    /\ db' = set_archive(db, id, TRUE)
    /\ cmd' = Called("archive_project", "", 0, id \in DOMAIN db.projects)
    /\ UNCHANGED templates
    /\ UNCHANGED <<storeVars, codecVars>>

UnarchiveProject(id) ==
    /\ db' = set_archive(db, id, FALSE)
    /\ cmd' = Called("unarchive_project", "", 0, id \in DOMAIN db.projects)
    /\ UNCHANGED templates
    /\ UNCHANGED <<storeVars, codecVars>>

AddLogToProject(project_id, log_text) ==
    /\ db.clock < MaxLogs
    /\ db' = add_log_to_project(db, project_id, log_text).db
    /\ cmd' = Called("add_log_to_project", "", 0, project_id \in DOMAIN db.projects)
    /\ UNCHANGED templates
    /\ UNCHANGED <<storeVars, codecVars>>

AddTodoToLog(log_id) ==
    /\ next_id(db.todos) <= MaxTodos
    /\ db' = add_todo_to_log(db, log_id, FALSE, "t")
    /\ cmd' = Called("add_todo_to_log", "", 0, log_id \in DOMAIN db.logs)
    /\ UNCHANGED templates
    /\ UNCHANGED <<storeVars, codecVars>>

\* The projects on their own: created, deleted, archived and unarchived.
NextProjects ==
    \/ \E name \in ProjectNames : \E parent_id \in ProjectIds : CreateProject(name, parent_id)
    \/ \E id \in ProjectIds : DeleteProject(id)
    \/ \E id \in ProjectIds : ArchiveProject(id)
    \/ \E id \in ProjectIds : UnarchiveProject(id)

SpecProjects == InitDb /\ [][NextProjects]_vars

\* Projects with their log entries and todos.
NextDb ==
    \/ \E name \in ProjectNames : \E parent_id \in ProjectIds : CreateProject(name, parent_id)
    \/ \E id \in ProjectIds : DeleteProject(id)
    \/ \E id \in ProjectIds : \E log_text \in LogTexts : AddLogToProject(id, log_text)
    \/ \E log_id \in 0..(MaxLogs + 1) : AddTodoToLog(log_id)

SpecDb == InitDb /\ [][NextDb]_vars

NamesUnique ==
    \A p, q \in DOMAIN db.projects :
        db.projects[p].name = db.projects[q].name => p = q

\* C24: project names are unique.  No two projects, top-level or subproject,
\* archived or not, have the same name; create_project with a name that is
\* in use leaves the database as it was.
C24_ProjectNamesUnique ==
    /\ []NamesUnique
    /\ [][(/\ cmd'.op = "create_project"
           /\ \E p \in DOMAIN db.projects : db.projects[p].name = cmd'.name)
          => db' = db]_vars

C24_Witness ==
    /\ cmd.op = "create_project"
    /\ ~cmd.done
    /\ \E p \in DOMAIN db.projects :
          /\ db.projects[p].name = cmd.name
          /\ db.projects[p].archive
          /\ db.projects[p].parent_id # 0

\* Project k is project id or lies below it.
RECURSIVE under(_, _, _)
under(d, k, id) ==
    \/ k = id
    \/ /\ k \in DOMAIN d.projects
       /\ d.projects[k].parent_id # 0
       /\ under(d, d.projects[k].parent_id, id)

Integrity ==
    /\ \A p \in DOMAIN db.projects :
          db.projects[p].parent_id = 0 \/ db.projects[p].parent_id \in DOMAIN db.projects
    /\ \A l \in DOMAIN db.logs : db.logs[l].project_id \in DOMAIN db.projects
    /\ \A t \in DOMAIN db.todos : db.todos[t].log_id \in DOMAIN db.logs

\* C25: delete cascades.  delete_project on an existing project removes the
\* project, every project below it, the log entries of those projects and
\* the todos of those log entries, and leaves every other row as it was;
\* in every state the parent of a subproject, the project of a log entry and
\* the log entry of a todo exist.
C25_DeleteCascades ==
    /\ []Integrity
    /\ [][(cmd'.op = "delete_project" /\ cmd'.id \in DOMAIN db.projects)
          => LET projects == {k \in DOMAIN db.projects : under(db, k, cmd'.id)}
                 logs == {l \in DOMAIN db.logs : db.logs[l].project_id \in projects}
                 todos == {t \in DOMAIN db.todos : db.todos[t].log_id \in logs}
             IN  /\ projects \cap DOMAIN db'.projects = {}
                 /\ db'.projects = [k \in DOMAIN db.projects \ projects |-> db.projects[k]]
                 /\ db'.logs = [l \in DOMAIN db.logs \ logs |-> db.logs[l]]
                 /\ db'.todos = [t \in DOMAIN db.todos \ todos |-> db.todos[t]]]_vars

\* A project with a project below it was deleted, one project is left, and
\* a log entry and a todo went with the deleted ones.
C25_Witness ==
    /\ cmd.op = "delete_project"
    /\ cmd.done
    /\ Cardinality(DOMAIN db.projects) = 1
    /\ db.clock = 1
    /\ db.logs = <<>>
    /\ db.todos = <<>>

---------------------------------------------------------------------------
\* The commands entry, entry-print, new-template and edit-template of
\* src/src/cli.py, over the database and the template directory.

MaxCliLogs == 2     \* log entries added by the entry command in one behaviour
MaxCliTodos == 1    \* todos added by the entry command in one behaviour

\* A line "[ ] t" of a text: a todo, not done, with the description "t".
TODO == "[ ] t"

\* os.path.join(template_path, name), the path of a template file, as text.
TemplatePath(name) == <<"~/.config/recallvault/templates/" \o name>>

\* The initial content of the temporary file in writer(editor, content,
\* template): content (here given) when it is passed, else the text of the
\* file template when that is passed, else nothing.  template_text is the
\* text of that file.
writer_buffer(given, template_text) ==
    IF given # <<>> THEN given ELSE template_text

\* todo_extractor(text): one tuple for every todo line of the text.
RECURSIVE todo_extractor(_)
todo_extractor(t) ==
    IF t = <<>> THEN <<>>
    ELSE (IF t[1] = TODO THEN <<[status |-> " ", description |-> "t"]>> ELSE <<>>)
         \o todo_extractor(Tail(t))

\* separator(text): the text before the first todo line, stripped.
separator(t) ==
    LET at == {i \in 1..Len(t) : t[i] = TODO}
    IN  IF at = {} THEN strip(t) ELSE strip(SubSeq(t, 1, Min(at) - 1))

\* "for todo in todos: log.add_todo_to_log(log_id, ...)".
RECURSIVE add_todos(_, _, _)
add_todos(d, log_id, todos) ==
    IF todos = <<>> THEN d
    ELSE add_todos(add_todo_to_log(d, log_id, todos[1].status = "x", todos[1].description),
                   log_id, Tail(todos))

\* The test "if log:" of the entry command.  log is the module src/src/log.py
\* imported at the top of cli.py, and a module is true; the text of the entry
\* is log_entry.
entry_given(log_entry) == TRUE

\* The entry command from "log_entry = writer(...)" on, the user leaving final
\* in the editor: the database after the command and what it printed.
entry_command(d, name, final) ==
    LET log_entry == strip(final)
        todos == todo_extractor(log_entry)
        project_id == get_project_id(d, name)
        added == add_log_to_project(d, project_id, separator(log_entry))
    IN  IF entry_given(log_entry)
        THEN [db |-> add_todos(added.db, added.log_id, todos), echo |-> ""]
        ELSE [db |-> d, echo |-> "Please provide a log entry for the project."]

\* The ids of log entries, the one with the latest date first.
RECURSIVE by_date_desc(_, _)
by_date_desc(d, ids) ==
    IF ids = {} THEN <<>>
    ELSE LET l == CHOOSE k \in ids : \A m \in ids : d.logs[m].date <= d.logs[k].date
         IN  <<l>> \o by_date_desc(d, ids \ {l})

\* get_logs_from_project: the log entries of the project ordered by date,
\* latest first, at most number of them when number is not 0.
get_logs_from_project(d, project_id, number) ==
    LET ids == {l \in DOMAIN d.logs : d.logs[l].project_id = project_id}
        all == by_date_desc(d, ids)
    IN  IF project_id \notin DOMAIN d.projects THEN <<>>
        ELSE IF number # 0 THEN SubSeq(all, 1, Min({number, Len(all)}))
        ELSE all

\* logs[::-1].
reversed(s) == [i \in 1..Len(s) |-> s[Len(s) + 1 - i]]

\* entry_print: the ids of the log entries in the order they are printed.
entry_print(d, name, depth) ==
    reversed(get_logs_from_project(d, get_project_id(d, name), depth))

CliProjects == {"p", "q"}
TemplateNames == {"t"}

\* What the user may leave in the editor after editing: nothing, a line,
\* a line and a todo.
Edited == {<<>>, <<"a", NL>>, <<"a", NL, TODO, NL>>}

InitEntry == InitDb

\* recallvault create NAME (a top-level project).
Create(name) ==
    /\ db' = create_project(db, name, 0)
    /\ cmd' = Called("create", name, 0, ~name_in_use(db, name))
    /\ UNCHANGED templates
    /\ UNCHANGED <<storeVars, codecVars>>

\* recallvault new-template NAME, the user leaving final in the editor.
NewTemplate(name, final) ==
    /\ cmd' = [Called("new_template", "", 0, name \notin DOMAIN templates)
                  EXCEPT !.template = name, !.typed = final]
    /\ templates' = IF name \in DOMAIN templates THEN templates
                    ELSE with_row(templates, name, strip(final))
    /\ UNCHANGED db
    /\ UNCHANGED <<storeVars, codecVars>>

\* recallvault entry NAME [--template TEMPLATE].  The editor opens on the
\* buffer writer prepared; the user leaves it as it is or leaves final.
Entry(name, template, kept, final) ==
    LET given == IF template = "" THEN <<>> ELSE TemplatePath(template)
        buffer == writer_buffer(given, <<>>)
        left == IF kept THEN buffer ELSE final
        c == entry_command(db, name, left)
        found == template = "" \/ template \in DOMAIN templates
    IN  /\ c.db.clock <= MaxCliLogs
        /\ next_id(c.db.todos) <= MaxCliTodos + 1
        /\ db' = IF found THEN c.db ELSE db
        /\ cmd' = [Called("entry", name, 0, found)
                      EXCEPT !.template = template,
                             !.buffer = IF found THEN buffer ELSE <<>>,
                             !.kept = kept, !.typed = left,
                             !.echo = IF found THEN c.echo ELSE ""]
        /\ UNCHANGED templates
        /\ UNCHANGED <<storeVars, codecVars>>

\* recallvault entry-print NAME --depth DEPTH.
EntryPrint(name, depth) ==
    /\ cmd' = [Called("entry_print", name, 0, TRUE)
                  EXCEPT !.depth = depth, !.printed = entry_print(db, name, depth)]
    /\ UNCHANGED <<db, templates>>
    /\ UNCHANGED <<storeVars, codecVars>>

\* recallvault edit-template NAME.
EditTemplate(name, kept, final) ==
    LET buffer == writer_buffer(TemplatePath(name), <<>>)
        left == IF kept THEN buffer ELSE final
        found == name \in DOMAIN templates
    IN  /\ templates' = IF found THEN [templates EXCEPT ![name] = strip(left)] ELSE templates
        /\ cmd' = [Called("edit_template", "", 0, found)
                      EXCEPT !.template = name,
                             !.buffer = IF found THEN buffer ELSE <<>>,
                             !.kept = kept, !.typed = left]
        /\ UNCHANGED db
        /\ UNCHANGED <<storeVars, codecVars>>

NextEntry ==
    \/ \E name \in CliProjects : Create(name)
    \/ \E name \in TemplateNames : \E final \in Edited : NewTemplate(name, final)
    \/ \E name \in CliProjects : \E template \in {""} \cup TemplateNames :
          \E kept \in BOOLEAN : \E final \in Edited : Entry(name, template, kept, final)
    \/ \E name \in CliProjects : \E depth \in 1..(MaxCliLogs + 1) : EntryPrint(name, depth)
    \/ \E name \in TemplateNames : \E kept \in BOOLEAN : \E final \in Edited :
          EditTemplate(name, kept, final)

SpecEntry == InitEntry /\ [][NextEntry]_vars

\* C26: the entry command needs text.  With no text left in the editor the
\* command adds nothing to the database and prints that a log entry must be
\* provided; with text, and a project of that name, it adds one log entry.
C26_EntryNeedsText ==
    [][(cmd'.op = "entry" /\ cmd'.done)
       => IF strip(cmd'.typed) = <<>>
          THEN /\ db' = db
               /\ cmd'.echo = "Please provide a log entry for the project."
          ELSE get_project_id(db, cmd'.name) # 0
               => /\ Cardinality(DOMAIN db'.logs) = Cardinality(DOMAIN db.logs) + 1
                  /\ \A l \in DOMAIN db.logs : l \in DOMAIN db'.logs /\ db'.logs[l] = db.logs[l]]_vars

\* C27: entry_print with depth d > 0 prints the d latest log entries of the
\* project, or all of them when there are fewer, the latest first.
C27_EntryPrintLatestFirst ==
    (cmd.op = "entry_print" /\ cmd.depth > 0)
    => LET project_id == get_project_id(db, cmd.name)
           ids == {l \in DOMAIN db.logs : db.logs[l].project_id = project_id}
           later(l) == {m \in ids : db.logs[m].date > db.logs[l].date}
       IN  /\ Len(cmd.printed) = Min({cmd.depth, Cardinality(ids)})
           /\ \A i \in 1..Len(cmd.printed) :
                 /\ cmd.printed[i] \in ids
                 /\ Cardinality(later(cmd.printed[i])) = i - 1

\* C28: template seeding.  When entry is given an existing template, and
\* when edit-template is run on an existing template, the editor opens on
\* the text of the template file; edit-template with the buffer left as it
\* is leaves the file with its text, stripped.
C28_TemplateSeeding ==
    [][(/\ cmd'.op \in {"entry", "edit_template"}
        /\ cmd'.template \in DOMAIN templates)
       => /\ cmd'.buffer = templates[cmd'.template]
          /\ (cmd'.op = "edit_template" /\ cmd'.kept)
             => templates'[cmd'.template] = strip(templates[cmd'.template])]_vars

====
